---- MODULE Spec2Model ----
(***************************************************************************)
(* Model of the signed GraphQL dispatcher                                  *)
(*   src/functions/dotnet/module1/AppSyncOperations.cs                     *)
(* (class AppSyncOperations: constructor and RunGraphql).                  *)
(*                                                                         *)
(* Strings are sequences of code points, so that case folding, ASCII       *)
(* encoding, JSON escaping and string.Join are computed and not assumed.   *)
(* The absent value (C# null) is the one-element sequence Null.            *)
(***************************************************************************)
EXTENDS Integers, Sequences, FiniteSets, TLC

\* the concurrent callers of RunGraphql
Callers == {1, 2}

\* ----------------------------------------------------------------- strings
Null == <<-1>>

\* char.IsWhiteSpace on the code points used here
IsWhiteSpaceChar(ch) == ch \in {9, 10, 11, 12, 13, 32}

\* string.IsNullOrWhiteSpace
IsNullOrWhiteSpace(s) ==
    \/ s = Null
    \/ \A i \in 1..Len(s) : IsWhiteSpaceChar(s[i])

\* case folding of the ASCII letters, all that a header name may contain
ToLower(s) == [i \in 1..Len(s) |-> IF s[i] \in 65..90 THEN s[i] + 32 ELSE s[i]]

\* string.Equals(a, b, StringComparison.InvariantCultureIgnoreCase)
EqualsIgnoreCase(a, b) == ToLower(a) = ToLower(b)

\* decimal digits of a natural number, as a string
RECURSIVE Digits(_)
Digits(n) == IF n < 10 THEN <<48 + n>> ELSE Digits(n \div 10) \o <<48 + (n % 10)>>

\* string.Join(", ", values)
RECURSIVE Join(_)
Join(values) ==
    IF Len(values) = 0 THEN <<>>
    ELSE IF Len(values) = 1 THEN values[1]
    ELSE values[1] \o <<44, 32>> \o Join(Tail(values))

\* Amazon.Util.HeaderKeys
HostHeader == <<104, 111, 115, 116>>
XAmzSecurityTokenHeader ==
    <<120, 45, 97, 109, 122, 45, 115, 101, 99, 117, 114, 105, 116, 121, 45,
      116, 111, 107, 101, 110>>
ContentTypeHeader == <<67, 111, 110, 116, 101, 110, 116, 45, 84, 121, 112, 101>>
ContentLengthHeader ==
    <<67, 111, 110, 116, 101, 110, 116, 45, 76, 101, 110, 103, 116, 104>>
AuthorizationHeader ==
    <<65, 117, 116, 104, 111, 114, 105, 122, 97, 116, 105, 111, 110>>
XAmzDateHeader == <<88, 45, 65, 109, 122, 45, 68, 97, 116, 101>>
XAmzContentSha256Header ==
    <<88, 45, 65, 109, 122, 45, 67, 111, 110, 116, 101, 110, 116, 45, 83, 72,
      65, 50, 53, 54>>

\* the name under which HttpRequestHeaders enumerates the Host header
HostKnownName == <<72, 111, 115, 116>>

\* MediaTypeNames.Application.Json, and the charset StringContent appends
ApplicationJson ==
    <<97, 112, 112, 108, 105, 99, 97, 116, 105, 111, 110, 47, 106, 115, 111, 110>>
CharsetUsAscii ==
    <<59, 32, 99, 104, 97, 114, 115, 101, 116, 61, 117, 115, 45, 97, 115, 99,
      105, 105>>

\* the service name given to DefaultRequest
AppSyncService == <<97, 112, 112, 115, 121, 110, 99>>

\* ------------------------------------------------------------ JSON payload
\* the lower-case hex digit of a value 0..15
HexDigit(n) == IF n < 10 THEN 48 + n ELSE 87 + n

\* Newtonsoft JsonConvert, StringEscapeHandling.Default, one character:
\* the quote, the backslash and the control characters are escaped, every
\* other character (characters outside ASCII too) is written as it is
JsonEscapeChar(ch) ==
    IF ch = 34 THEN <<92, 34>>
    ELSE IF ch = 92 THEN <<92, 92>>
    ELSE IF ch = 8 THEN <<92, 98>>
    ELSE IF ch = 9 THEN <<92, 116>>
    ELSE IF ch = 10 THEN <<92, 110>>
    ELSE IF ch = 12 THEN <<92, 102>>
    ELSE IF ch = 13 THEN <<92, 114>>
    ELSE IF ch < 32 THEN <<92, 117, 48, 48, HexDigit(ch \div 16), HexDigit(ch % 16)>>
    ELSE <<ch>>

RECURSIVE JsonEscape(_)
JsonEscape(s) ==
    IF Len(s) = 0 THEN <<>> ELSE JsonEscapeChar(s[1]) \o JsonEscape(Tail(s))

JsonNull == <<110, 117, 108, 108>>

\* a string value: null, or the escaped text between quotes
JsonString(s) == IF s = Null THEN JsonNull ELSE <<34>> \o JsonEscape(s) \o <<34>>

\* the members of a Dictionary<string, object> whose values are strings
RECURSIVE JsonMembers(_)
JsonMembers(d) ==
    IF Len(d) = 0 THEN <<>>
    ELSE JsonString(d[1].key) \o <<58>> \o JsonString(d[1].value)
         \o (IF Len(d) > 1 THEN <<44>> ELSE <<>>) \o JsonMembers(Tail(d))

\* a Dictionary<string, object> reference: null, or the entries in order
NullDictionary == [isNull |-> TRUE, entries |-> <<>>]
Dictionary(entries) == [isNull |-> FALSE, entries |-> entries]

JsonDictionary(d) ==
    IF d.isNull THEN JsonNull ELSE <<123>> \o JsonMembers(d.entries) \o <<125>>

NameQuery == <<113, 117, 101, 114, 121>>
NameOperationName ==
    <<111, 112, 101, 114, 97, 116, 105, 111, 110, 78, 97, 109, 101>>
NameVariables == <<118, 97, 114, 105, 97, 98, 108, 101, 115>>

\* JsonConvert.SerializeObject(new { query, operationName, variables })
SerializeObject(a) ==
    <<123>> \o JsonString(NameQuery) \o <<58>> \o JsonString(a.query)
    \o <<44>> \o JsonString(NameOperationName) \o <<58>> \o JsonString(a.operationName)
    \o <<44>> \o JsonString(NameVariables) \o <<58>> \o JsonDictionary(a.variables)
    \o <<125>>

\* Encoding.ASCII.GetBytes: a character outside ASCII becomes '?'
AsciiGetBytes(s) == [i \in 1..Len(s) |-> IF s[i] > 127 THEN 63 ELSE s[i]]

\* Encoding.ASCII.GetString: a byte outside ASCII becomes '?'
AsciiGetString(b) == [i \in 1..Len(b) |-> IF b[i] > 127 THEN 63 ELSE b[i]]

\* Encoding.UTF8.GetBytes on the Basic Multilingual Plane
Utf8Char(ch) ==
    IF ch < 128 THEN <<ch>>
    ELSE IF ch < 2048 THEN <<192 + (ch \div 64), 128 + (ch % 64)>>
    ELSE <<224 + (ch \div 4096), 128 + ((ch \div 64) % 64), 128 + (ch % 64)>>

RECURSIVE Utf8Range(_, _, _)
Utf8Range(s, lo, hi) ==
    IF lo > hi THEN <<>>
    ELSE IF lo = hi THEN Utf8Char(s[lo])
    ELSE LET mid == (lo + hi) \div 2
         IN Utf8Range(s, lo, mid) \o Utf8Range(s, mid + 1, hi)

Utf8GetBytes(s) == Utf8Range(s, 1, Len(s))

\* ------------------------------------------- a JSON parser for the receiver
HexValue(ch) ==
    IF ch \in 48..57 THEN ch - 48
    ELSE IF ch \in 97..102 THEN ch - 87
    ELSE IF ch \in 65..70 THEN ch - 55
    ELSE -1

ParseFail == [ok |-> FALSE, val |-> Null, next |-> 0]

\* the characters of a string literal from position i (after the opening
\* quote) up to the closing quote, escapes undone
RECURSIVE ParseChars(_, _, _)
ParseChars(b, i, acc) ==
    IF i > Len(b) THEN ParseFail
    ELSE IF b[i] = 34 THEN [ok |-> TRUE, val |-> acc, next |-> i + 1]
    ELSE IF b[i] < 32 THEN ParseFail
    ELSE IF b[i] # 92 THEN ParseChars(b, i + 1, Append(acc, b[i]))
    ELSE IF i + 1 > Len(b) THEN ParseFail
    ELSE LET e == b[i + 1]
         IN IF e \in {34, 92, 47} THEN ParseChars(b, i + 2, Append(acc, e))
            ELSE IF e = 98 THEN ParseChars(b, i + 2, Append(acc, 8))
            ELSE IF e = 116 THEN ParseChars(b, i + 2, Append(acc, 9))
            ELSE IF e = 110 THEN ParseChars(b, i + 2, Append(acc, 10))
            ELSE IF e = 102 THEN ParseChars(b, i + 2, Append(acc, 12))
            ELSE IF e = 114 THEN ParseChars(b, i + 2, Append(acc, 13))
            ELSE IF e = 117 /\ i + 5 <= Len(b)
                    /\ \A k \in 2..5 : HexValue(b[i + k]) >= 0
                 THEN ParseChars(b, i + 6,
                        Append(acc, 4096 * HexValue(b[i + 2]) + 256 * HexValue(b[i + 3])
                                    + 16 * HexValue(b[i + 4]) + HexValue(b[i + 5])))
            ELSE ParseFail

\* a string literal or null at position i
ParseString(b, i) ==
    IF i <= Len(b) /\ b[i] = 34 THEN ParseChars(b, i + 1, <<>>)
    ELSE IF i + 3 <= Len(b) /\ SubSeq(b, i, i + 3) = JsonNull
         THEN [ok |-> TRUE, val |-> Null, next |-> i + 4]
    ELSE ParseFail

\* the members "key":"value",... of an object from position i up to the
\* closing brace
RECURSIVE ParseMembers(_, _, _)
ParseMembers(b, i, acc) ==
    IF i > Len(b) THEN ParseFail
    ELSE IF b[i] = 125 /\ Len(acc) = 0 THEN [ok |-> TRUE, val |-> acc, next |-> i + 1]
    ELSE
      LET k == ParseString(b, i)
      IN IF ~k.ok \/ k.val = Null \/ k.next > Len(b) \/ b[k.next] # 58 THEN ParseFail
         ELSE LET v == ParseString(b, k.next + 1)
              IN IF ~v.ok \/ v.next > Len(b) THEN ParseFail
                 ELSE LET acc2 == Append(acc, [key |-> k.val, value |-> v.val])
                      IN IF b[v.next] = 125
                         THEN [ok |-> TRUE, val |-> acc2, next |-> v.next + 1]
                         ELSE IF b[v.next] = 44 THEN ParseMembers(b, v.next + 1, acc2)
                         ELSE ParseFail

\* an object of string members, or null, at position i
ParseDictionary(b, i) ==
    IF i <= Len(b) /\ b[i] = 123
    THEN LET m == ParseMembers(b, i + 1, <<>>)
         IN [ok |-> m.ok, val |-> Dictionary(IF m.ok THEN m.val ELSE <<>>),
             next |-> m.next]
    ELSE IF i + 3 <= Len(b) /\ SubSeq(b, i, i + 3) = JsonNull
         THEN [ok |-> TRUE, val |-> NullDictionary, next |-> i + 4]
    ELSE [ok |-> FALSE, val |-> NullDictionary, next |-> 0]

\* what a JSON parser reads from a body: the object {query, operationName,
\* variables}, or no value when the text is not such an object
ParseBody(b) ==
    LET fail == [ok |-> FALSE]
        expect(i, name) ==
            LET k == ParseString(b, i)
            IN IF k.ok /\ k.val = name /\ k.next <= Len(b) /\ b[k.next] = 58
               THEN k.next + 1 ELSE 0
    IN IF Len(b) = 0 \/ b[1] # 123 THEN fail
       ELSE LET i1 == expect(2, NameQuery)
                qv == IF i1 = 0 THEN ParseFail ELSE ParseString(b, i1)
                i2 == IF qv.ok /\ qv.next <= Len(b) /\ b[qv.next] = 44
                      THEN expect(qv.next + 1, NameOperationName) ELSE 0
                ov == IF i2 = 0 THEN ParseFail ELSE ParseString(b, i2)
                i3 == IF ov.ok /\ ov.next <= Len(b) /\ b[ov.next] = 44
                      THEN expect(ov.next + 1, NameVariables) ELSE 0
                vv == IF i3 = 0 THEN [ok |-> FALSE, val |-> NullDictionary, next |-> 0]
                      ELSE ParseDictionary(b, i3)
            IN IF vv.ok /\ vv.next = Len(b) /\ b[vv.next] = 125
               THEN [ok |-> TRUE, query |-> qv.val, operationName |-> ov.val,
                     variables |-> vv.val]
               ELSE fail


\* ------------------------------------------------------------ HTTP headers
\* A header collection (HttpRequestHeaders, HttpContentHeaders) is a set of
\* entries [Key, Values]; names are compared without regard to case.
HasHeader(headers, name) == \E h \in headers : EqualsIgnoreCase(h.Key, name)

\* the values stored under a name, <<>> when the header is absent
HeaderValues(headers, name) ==
    IF HasHeader(headers, name)
    THEN (CHOOSE h \in headers : EqualsIgnoreCase(h.Key, name)).Values
    ELSE <<>>

\* the headers that belong to HttpContentHeaders and that a request header
\* collection refuses
IsContentHeaderName(name) ==
    \/ EqualsIgnoreCase(name, ContentTypeHeader)
    \/ EqualsIgnoreCase(name, ContentLengthHeader)

\* a header name is an HTTP token: not empty, no control character, space
\* or colon
IsValidHeaderName(name) ==
    /\ name # Null
    /\ Len(name) > 0
    /\ \A i \in 1..Len(name) : name[i] > 32 /\ name[i] < 127 /\ name[i] # 58

\* the spelling under which a collection stores a header: the descriptor's
\* name for a known header, the given name otherwise
KnownHeaderName(name) ==
    IF EqualsIgnoreCase(name, HostHeader) THEN HostKnownName
    ELSE IF EqualsIgnoreCase(name, AuthorizationHeader) THEN AuthorizationHeader
    ELSE name

\* the store after one more value under a name
AppendHeaderValue(headers, name, value) ==
    IF HasHeader(headers, name)
    THEN {IF EqualsIgnoreCase(h.Key, name)
          THEN [Key |-> h.Key, Values |-> Append(h.Values, value)]
          ELSE h : h \in headers}
    ELSE headers \cup {[Key |-> KnownHeaderName(name), Values |-> <<value>>]}

\* HttpRequestHeaders.Add(name, value): a null value is stored as ""
HeadersAdd(headers, name, value) ==
    AppendHeaderValue(headers, name, IF value = Null THEN <<>> ELSE value)

\* HttpRequestHeaders.TryAddWithoutValidation(name, value): nothing is added
\* (the call returns false) for an invalid name or a content header
TryAddWithoutValidation(headers, name, value) ==
    IF ~IsValidHeaderName(name) \/ IsContentHeaderName(name) THEN headers
    ELSE AppendHeaderValue(headers, name, IF value = Null THEN <<>> ELSE value)

\* new StringContent(jsonPayload, Encoding.ASCII, MediaTypeNames.Application.Json)
StringContent(text) ==
    [Buffer |-> AsciiGetBytes(text),
     Headers |-> {[Key |-> ContentTypeHeader,
                   Values |-> <<ApplicationJson \o CharsetUsAscii>>]}]

\* HttpContent.ReadAsStringAsync: the buffer decoded with the charset of the
\* content type, us-ascii
ReadAsString(content) == AsciiGetString(content.Buffer)

\* the headers of a message as they are written to the connection: request
\* headers, content headers, and the Content-Length of the buffer when the
\* content headers do not carry one
WireHeaders(m) ==
    m.Headers \cup m.Content.Headers
    \cup (IF HasHeader(m.Content.Headers, ContentLengthHeader) THEN {}
          ELSE {[Key |-> ContentLengthHeader,
                 Values |-> <<Digits(Len(m.Content.Buffer))>>]})

\* ----------------------------------------------------- the signer's request
\* IRequest.Headers is a dictionary of single values whose keys are compared
\* without regard to case: a set of entries [Key, Value].
DictHas(d, key) == \E e \in d : EqualsIgnoreCase(e.Key, key)

DictGet(d, key) ==
    IF DictHas(d, key) THEN (CHOOSE e \in d : EqualsIgnoreCase(e.Key, key)).Value
    ELSE Null

\* d[key] = value: an existing entry keeps its key
DictSet(d, key, value) ==
    IF DictHas(d, key)
    THEN {IF EqualsIgnoreCase(e.Key, key) THEN [Key |-> e.Key, Value |-> value]
          ELSE e : e \in d}
    ELSE d \cup {[Key |-> key, Value |-> value]}

DictRemove(d, key) == {e \in d : ~EqualsIgnoreCase(e.Key, key)}

\* stand-in for the SHA-256 digest: a checksum of a byte string
RECURSIVE WeightedSum(_, _, _)
WeightedSum(b, lo, hi) ==
    IF lo > hi THEN 0
    ELSE IF lo = hi THEN lo * (b[lo] + 1)
    ELSE LET mid == (lo + hi) \div 2
         IN WeightedSum(b, lo, mid) + WeightedSum(b, mid + 1, hi)

Checksum(b) == (7 + WeightedSum(b, 1, Len(b))) % 9973

\* the digest of the canonical headers; the order of the entries is immaterial
RECURSIVE DictChecksum(_)
DictChecksum(d) ==
    IF d = {} THEN 0
    ELSE LET e == CHOOSE x \in d : TRUE
         IN (Checksum(ToLower(e.Key) \o <<58>> \o e.Value)
             + DictChecksum(d \ {e})) % 9973

\* foreach (var header in headers) dict[header.Key] = string.Join(", ", header.Value)
RECURSIVE CopyHeaders(_, _)
CopyHeaders(d, headers) ==
    IF headers = {} THEN d
    ELSE LET h == CHOOSE x \in headers : TRUE
         IN CopyHeaders(DictSet(d, h.Key, Join(h.Values)), headers \ {h})

\* the time stamp the signer writes to X-Amz-Date
SigningTime == <<50, 48, 50, 52, 48, 49, 48, 49, 84, 48, 48, 48, 48, 48, 48, 90>>
SignatureAlgorithm ==
    <<65, 87, 83, 52, 45, 72, 77, 65, 67, 45, 83, 72, 65, 50, 53, 54, 32>>

\* the host AWS4Signer derives from the endpoint when the request has none:
\* the host, and the port when the URI names one
EndpointHostAndPort(uri) ==
    IF Len(uri.Port) = 0 THEN uri.Host ELSE uri.Host \o <<58>> \o uri.Port

\* AWS4Signer.InitializeHeaders and SetRequestBodyHash: stale signing headers
\* are removed, the host is set when the request has none, the date and the
\* payload hash are set. These are the headers the signature covers.
CanonicalHeaders(req) ==
    LET cleaned == DictRemove(DictRemove(DictRemove(req.Headers,
                       AuthorizationHeader), XAmzContentSha256Header), XAmzDateHeader)
        hosted == IF DictHas(cleaned, HostHeader) THEN cleaned
                  ELSE DictSet(cleaned, HostHeader, EndpointHostAndPort(req.Endpoint))
        dated == DictSet(hosted, XAmzDateHeader, SigningTime)
    IN DictSet(dated, XAmzContentSha256Header, Digits(Checksum(req.Content)))

\* what the signature is computed over: the canonical request and the scope
\* (service, region), keyed by the secret key
SignedRequest(req, creds) ==
    [Headers |-> CanonicalHeaders(req),
     Content |-> req.Content,
     HttpMethod |-> req.HttpMethod,
     Service |-> req.ServiceName,
     Region |-> req.AlternateEndpoint.SystemName,
     SecretKey |-> creds.SecretKey]

\* the value of the Authorization header
AuthorizationValue(req, creds) ==
    LET so == SignedRequest(req, creds)
    IN SignatureAlgorithm \o creds.AccessKey \o <<47>> \o so.Region \o <<47>>
       \o so.Service \o <<32>>
       \o Digits((Checksum(so.SecretKey \o so.Region \o so.Service \o so.HttpMethod)
                  + DictChecksum(so.Headers) + Checksum(so.Content)) % 9973)

\* AWS4Signer.Sign: the request's headers after signing
SignedHeaders(req, creds) ==
    DictSet(CanonicalHeaders(req), AuthorizationHeader, AuthorizationValue(req, creds))

\* Values a signer may write for the protected headers in place of the
\* request's own: a recomputed host, token, content type and length, under
\* names in a letter case of its choosing.
HostUpperName == <<72, 79, 83, 84>>
TokenMixedName ==
    <<88, 45, 65, 109, 122, 45, 83, 101, 99, 117, 114, 105, 116, 121, 45, 84,
      111, 107, 101, 110>>
RewriteHostPort == [Key |-> HostHeader, Value |-> <<97, 46, 105, 111, 58, 52, 52, 51>>]
RewriteHostUpper == [Key |-> HostUpperName, Value |-> <<98, 46, 105, 111>>]
RewriteToken == [Key |-> TokenMixedName, Value |-> <<90>>]
RewriteContentType == [Key |-> ToLower(ContentTypeHeader), Value |-> ApplicationJson]
RewriteContentLength == [Key |-> ToLower(ContentLengthHeader), Value |-> <<55>>]

SignerRewrites ==
    {{}, {RewriteHostPort}, {RewriteHostUpper}, {RewriteToken},
     {RewriteHostPort, RewriteToken, RewriteContentType, RewriteContentLength}}

RECURSIVE ApplyRewrites(_, _)
ApplyRewrites(d, rw) ==
    IF rw = {} THEN d
    ELSE LET e == CHOOSE x \in rw : TRUE
         IN ApplyRewrites(DictRemove(d, e.Key) \cup {e}, rw \ {e})

LowerKeys(d) == {[Key |-> ToLower(e.Key), Value |-> e.Value] : e \in d}

\* every header dictionary the signing step may leave in the request: the
\* one AWS4Signer computes, the ones that differ from it in the protected
\* headers, and the one with every name in lower case
SignerOutputs(req, creds) ==
    {ApplyRewrites(SignedHeaders(req, creds), rw) : rw \in SignerRewrites}
    \cup {LowerKeys(SignedHeaders(req, creds))}

\* -------------------------------------------------------------- constructor
\* endpoint strings a caller may pass to the constructor
EndpointPort ==
    <<104, 116, 116, 112, 115, 58, 47, 47, 65, 46, 105, 111, 58, 56, 52, 52,
      51, 47, 103>>
EndpointRelative == <<97, 46, 105, 111, 47, 103>>
EndpointBadHost == <<104, 116, 116, 112, 115, 58, 47, 47, 32, 47, 103>>
EndpointArgs == {EndpointPort, EndpointRelative, EndpointBadHost, Null}

RegionUsEast1 == <<117, 115, 45, 101, 97, 115, 116, 45, 49>>
RegionEuWest1 == <<101, 117, 45, 119, 101, 115, 116, 45, 49>>
RegionBlank == <<32>>
RegionArgs == {Null, RegionBlank, RegionUsEast1}
EnvRegionValues == {Null, RegionBlank, RegionEuWest1}

\* index of the first occurrence of ch in s at or after from, 0 when none
IndexOf(s, ch, from) ==
    LET hits == {i \in from..Len(s) : s[i] = ch}
    IN IF hits = {} THEN 0 ELSE CHOOSE i \in hits : \A j \in hits : i <= j

IsLetter(ch) == ch \in 65..90 \/ ch \in 97..122
IsDigit(ch) == ch \in 48..57
IsHostChar(ch) == IsLetter(ch) \/ IsDigit(ch) \/ ch \in {45, 46}

\* new Uri(string): an absolute URI scheme://host[:port]/path, or no Uri at
\* all (UriFormatException, ArgumentNullException for null)
UriParse(s) ==
    IF s = Null THEN [ok |-> FALSE, error |-> "ArgumentNullException"]
    ELSE
      LET colon == IndexOf(s, 58, 1)
          hasScheme == /\ colon > 1
                       /\ \A i \in 1..(colon - 1) : IsLetter(s[i])
                       /\ Len(s) >= colon + 2
                       /\ s[colon + 1] = 47
                       /\ s[colon + 2] = 47
      IN IF ~hasScheme THEN [ok |-> FALSE, error |-> "UriFormatException"]
         ELSE
           LET start == colon + 3
               slash == IndexOf(s, 47, start)
               authEnd == IF slash = 0 THEN Len(s) ELSE slash - 1
               pcolon == IndexOf(s, 58, start)
               hostEnd == IF pcolon = 0 \/ pcolon > authEnd THEN authEnd
                          ELSE pcolon - 1
               host == SubSeq(s, start, hostEnd)
               port == IF hostEnd = authEnd THEN <<>>
                       ELSE SubSeq(s, hostEnd + 2, authEnd)
               valid == /\ Len(host) > 0
                        /\ \A i \in 1..Len(host) : IsHostChar(host[i])
                        /\ \A i \in 1..Len(port) : IsDigit(port[i])
           IN IF ~valid THEN [ok |-> FALSE, error |-> "UriFormatException"]
              ELSE [ok |-> TRUE,
                    Scheme |-> ToLower(SubSeq(s, 1, colon - 1)),
                    Host |-> ToLower(host),
                    Port |-> port,
                    OriginalString |-> s]

\* Amazon.RegionEndpoint.GetBySystemName: a null name throws, every other
\* name yields a RegionEndpoint of that system name
GetBySystemName(name) ==
    IF name = Null THEN [ok |-> FALSE, error |-> "ArgumentNullException"]
    ELSE [ok |-> TRUE, SystemName |-> name]

\* a fallback for the null argument only, not for the blank one
RegionNameNullOnly(awsRegion, env) == IF awsRegion = Null THEN env ELSE awsRegion

\* the region name the constructor looks up (lines 30-31)
RegionName(awsRegion, env) ==
    IF IsNullOrWhiteSpace(awsRegion) THEN env ELSE awsRegion

NoUri == [ok |-> FALSE, error |-> "none"]
NoRegion == [ok |-> FALSE, error |-> "none"]

VARIABLES
    envRegion,         \* value of the AWS_REGION environment variable
    constructed,       \* "none", "ok" or "failed": outcome of the constructor
    ctorError,         \* the exception the constructor threw, or "none"
    _graphQlEndpoint,  \* field _graphQlEndpoint
    _awsRegion         \* field _awsRegion

ctorVars == <<envRegion, constructed, ctorError, _graphQlEndpoint, _awsRegion>>

CtorInit ==
    /\ envRegion \in EnvRegionValues
    /\ constructed = "none"
    /\ ctorError = "none"
    /\ _graphQlEndpoint = NoUri
    /\ _awsRegion = NoRegion

\* AppSyncOperations(string graphQlEndpoint, string awsRegion = null)
Construct(graphQlEndpoint, awsRegion) ==
    /\ constructed = "none"
    /\ LET uri == UriParse(graphQlEndpoint)
           region == GetBySystemName(RegionName(awsRegion, envRegion))
       IN IF ~uri.ok
          THEN /\ constructed' = "failed"
               /\ ctorError' = uri.error
               /\ UNCHANGED <<_graphQlEndpoint, _awsRegion>>
          ELSE IF ~region.ok
          THEN /\ constructed' = "failed"
               /\ ctorError' = region.error
               /\ UNCHANGED <<_graphQlEndpoint, _awsRegion>>
          ELSE /\ constructed' = "ok"
               /\ ctorError' = "none"
               /\ _graphQlEndpoint' = uri
               /\ _awsRegion' = region
    /\ UNCHANGED envRegion

\* ------------------------------------------------------------- RunGraphql
MethodPost == <<80, 79, 83, 84>>

\* arguments (query, operationName, variables) callers pass
PayloadPing ==
    [query |-> <<123, 112, 105, 110, 103, 125>>,
     operationName |-> <<80, 105, 110, 103>>,
     variables |-> Dictionary(<<>>)]
PayloadAccent ==
    [query |-> <<34, 92, 10>>,
     operationName |-> <<77>>,
     variables |-> Dictionary(<<[key |-> <<107>>, value |-> <<233, 63>>]>>)]
Payloads == {PayloadPing, PayloadAccent}

\* what the credential chain may resolve: ImmutableCredentials
CredentialsA == [AccessKey |-> <<65>>, SecretKey |-> <<66>>, Token |-> <<84>>]
CredentialsB == [AccessKey |-> <<67>>, SecretKey |-> <<68>>, Token |-> <<85>>]
NoCredentials == [AccessKey |-> Null, SecretKey |-> Null, Token |-> Null]
ResolvableCredentials == {CredentialsA, CredentialsB}

\* responses the endpoint may give
ReasonPhrase(status) ==
    IF status = 403 THEN <<70, 111, 114, 98, 105, 100, 100, 101, 110>>
    ELSE IF status = 300 THEN <<77, 117, 108, 116, 105, 112, 108, 101>>
    ELSE IF status = 500 THEN <<69, 114, 114, 111, 114>>
    ELSE <<79, 75>>
BodyForbidden == <<70, 111, 114, 98, 105, 100, 100, 101, 110>>
BodyErrors == <<123, 34, 101, 114, 114, 111, 114, 115, 34, 58, 91, 93, 125>>
BodyData == <<123, 34, 100, 97, 116, 97, 34, 58, 49, 125>>
Response(status, body) ==
    [StatusCode |-> status, ReasonPhrase |-> ReasonPhrase(status), Content |-> body]
Responses ==
    {Response(200, BodyData), Response(299, BodyData), Response(300, BodyErrors),
     Response(403, BodyForbidden), Response(403, BodyErrors), Response(500, BodyErrors)}

NoContent == [Buffer |-> <<>>, Headers |-> {}]
NoMessage == [Method |-> <<>>, RequestUri |-> NoUri, Headers |-> {}, Content |-> NoContent]
NoAwsRequest ==
    [ServiceName |-> <<>>, Content |-> <<>>, HttpMethod |-> <<>>, Endpoint |-> NoUri,
     AlternateEndpoint |-> NoRegion, Headers |-> {}]
NoResponse == [StatusCode |-> 0, ReasonPhrase |-> <<>>, Content |-> <<>>]
NoError == [type |-> "none", step |-> "none", StatusCode |-> 0, Message |-> <<>>]
NoSigned ==
    [Headers |-> {}, Content |-> <<>>, HttpMethod |-> <<>>, Service |-> <<>>,
     Region |-> <<>>, SecretKey |-> <<>>]
NoArgs == [query |-> Null, operationName |-> Null, variables |-> NullDictionary]

\* a comparison that regards the letter case
IsProtectedHeaderOrdinal(key) ==
    key \in {ContentTypeHeader, ContentLengthHeader, XAmzSecurityTokenHeader, HostHeader}

\* a comparison by the prefix x-amz- in place of the token header's name
IsProtectedHeaderPrefix(key) ==
    \/ EqualsIgnoreCase(key, ContentTypeHeader)
    \/ EqualsIgnoreCase(key, ContentLengthHeader)
    \/ (Len(key) >= 6 /\ EqualsIgnoreCase(SubSeq(key, 1, 6), SubSeq(XAmzSecurityTokenHeader, 1, 6)))
    \/ EqualsIgnoreCase(key, HostHeader)

\* the condition of lines 77-82: the header is one of the four the merge
\* leaves alone
IsProtectedHeader(key) ==
    \/ EqualsIgnoreCase(key, ContentTypeHeader)
    \/ EqualsIgnoreCase(key, ContentLengthHeader)
    \/ EqualsIgnoreCase(key, XAmzSecurityTokenHeader)
    \/ EqualsIgnoreCase(key, HostHeader)

\* the loop of lines 75-86 over the signer's headers
RECURSIVE MergeSignerHeaders(_, _)
MergeSignerHeaders(headers, d) ==
    IF d = {} THEN headers
    ELSE LET e == CHOOSE x \in d : TRUE
         IN MergeSignerHeaders(
              IF ~IsProtectedHeader(e.Key)
              THEN TryAddWithoutValidation(headers, e.Key, e.Value)
              ELSE headers,
              d \ {e})

\* a test that takes every status below 400 for a success
IsSuccessStatusCodeBelow400(status) == status >= 200 /\ status <= 399

\* HttpResponseMessage.IsSuccessStatusCode
IsSuccessStatusCode(status) == status >= 200 /\ status <= 299

MessagePrefix ==
    <<82, 101, 115, 112, 111, 110, 115, 101, 32, 115, 116, 97, 116, 117, 115, 58, 32>>

\* the HttpRequestException EnsureSuccessStatusCode throws: it carries the
\* status code, and a message made of the status code and the reason phrase
StatusException(response) ==
    [type |-> "HttpRequestException", step |-> "EnsureSuccessStatusCode",
     StatusCode |-> response.StatusCode,
     Message |-> MessagePrefix \o Digits(response.StatusCode) \o <<32, 40>>
                 \o response.ReasonPhrase \o <<41, 46>>]

\* the request as it leaves through HttpClient.SendAsync
WireRequest(m) ==
    [Method |-> m.Method, Uri |-> m.RequestUri.OriginalString,
     Headers |-> WireHeaders(m), Body |-> m.Content.Buffer]

VARIABLES
    pc,                    \* position of each caller in RunGraphql
    args,                  \* parameters query, operationName, variables
    immutableCredentials,  \* local immutableCredentials
    jsonPayload,           \* local jsonPayload
    httpRequestMessage,    \* local httpRequestMessage, with its Content
    awsRequest,            \* local awsRequest
    httpResponseMessage,   \* local httpResponseMessage
    error,                 \* the exception the call ended with
    net,                   \* requests handed to the network, not yet answered
    sent,                  \* requests the current call has handed to the network
    draft,                 \* the message as it stood when line 51 was done
    signedOver,            \* what the signer computed the signature over
    resolutions,           \* times the current call asked the credential chain
    served                 \* a call on this object has returned

callVars ==
    <<pc, args, immutableCredentials, jsonPayload, httpRequestMessage, awsRequest,
      httpResponseMessage, error, net, sent, draft, signedOver, resolutions, served>>

\* ------------------------------------------- ApiOperations.PosAsJsonAsync
XApiKeyHeader == <<120, 45, 97, 112, 105, 45, 107, 101, 121>>

\* apiUrl strings a caller may pass: null, empty, blank, a relative
\* reference, an absolute https URI
ApiUrlBlank == <<32, 9>>
ApiUrlRelative == <<98, 46, 105, 111, 47, 111>>
ApiUrlAbsolute ==
    <<104, 116, 116, 112, 115, 58, 47, 47, 98, 46, 105, 111, 47, 111>>
ApiUrls == {Null, <<>>, ApiUrlBlank, ApiUrlRelative, ApiUrlAbsolute}

\* apiKey strings a caller may pass
ApiKeyBlank == <<32>>
ApiKeyOne == <<107, 49>>
ApiKeyTwo == <<75, 45, 50>>
ApiKeys == {Null, <<>>, ApiKeyBlank, ApiKeyOne, ApiKeyTwo}

\* content objects a caller may pass: null, an empty object, an object with
\* a string outside ASCII
ApiContents ==
    {NullDictionary, Dictionary(<<>>),
     Dictionary(<<[key |-> <<97>>, value |-> <<233>>]>>)}

NoApiArgs == [apiUrl |-> Null, apiKey |-> Null, content |-> NullDictionary]
NoApiError == [type |-> "none", ParamName |-> "none", StatusCode |-> 0]

\* new ArgumentNullException(nameof(parameter))
ArgumentNullException(paramName) ==
    [type |-> "ArgumentNullException", ParamName |-> paramName, StatusCode |-> 0]

\* the key is looked at before the url
FirstInvalidArgumentKeyFirst(apiUrl, apiKey, content) ==
    IF IsNullOrWhiteSpace(apiKey) THEN "apiKey"
    ELSE IF IsNullOrWhiteSpace(apiUrl) THEN "apiUrl"
    ELSE IF content.isNull THEN "content"
    ELSE "none"

\* lines 20-27: the parameter whose check throws, "none" when all three pass
FirstInvalidArgument(apiUrl, apiKey, content) ==
    IF IsNullOrWhiteSpace(apiUrl) THEN "apiUrl"
    ELSE IF IsNullOrWhiteSpace(apiKey) THEN "apiKey"
    ELSE IF content.isNull THEN "content"
    ELSE "none"

\* new HttpRequestMessage(HttpMethod.Post, apiUrl): the string becomes a Uri
\* of kind RelativeOrAbsolute, absolute when it has the shape new Uri(string)
\* accepts and a relative reference otherwise
RequestUriOf(apiUrl) ==
    LET u == UriParse(apiUrl)
    IN IF u.ok
       THEN [IsAbsoluteUri |-> TRUE, Scheme |-> u.Scheme, OriginalString |-> apiUrl]
       ELSE [IsAbsoluteUri |-> FALSE, Scheme |-> <<>>, OriginalString |-> apiUrl]

NoApiMessage ==
    [Method |-> <<>>, RequestUri |-> RequestUriOf(<<>>), Headers |-> {},
     Content |-> NoContent]

\* lines 31-39: the message PosAsJsonAsync builds
ApiRequestMessage(apiUrl, apiKey, content) ==
    [Method |-> MethodPost,
     RequestUri |-> RequestUriOf(apiUrl),
     Headers |-> TryAddWithoutValidation(
                     TryAddWithoutValidation({}, XApiKeyHeader, apiKey),
                     ContentTypeHeader, ApplicationJson),
     Content |-> StringContent(JsonDictionary(content))]

VARIABLES
    apiPc,                 \* position of the caller in PosAsJsonAsync
    apiArgs,               \* parameters apiUrl, apiKey, content
    apiRequestMessage,     \* local httpRequestMessage of PosAsJsonAsync
    apiResponseMessage,    \* local httpResponseMessage of PosAsJsonAsync
    apiError,              \* the exception the call ends with
    apiNet                 \* requests this call handed to the connection

apiVars ==
    <<apiPc, apiArgs, apiRequestMessage, apiResponseMessage, apiError, apiNet>>

ApiInit ==
    /\ apiPc = "idle"
    /\ apiArgs = NoApiArgs
    /\ apiRequestMessage = NoApiMessage
    /\ apiResponseMessage = NoResponse
    /\ apiError = NoApiError
    /\ apiNet = <<>>

\* ------------------------------------- FunctionsConstruct (thumbnail generator)
\* the constructs whose constructors run: the code builds each stack once,
\* two stacks give two FunctionsConstruct instances
Constructs == {1, 2}

\* process.env.LANGUAGE: unset, or a string
EnvUnset == [isSet |-> FALSE, value |-> ""]
EnvValue(v) == [isSet |-> TRUE, value |-> v]
EnvLanguageValues ==
    {EnvUnset, EnvValue(""), EnvValue("nodejs"), EnvValue("dotnet"),
     EnvValue("python"), EnvValue("java"), EnvValue("go"), EnvValue("NodeJS")}

\* (process.env.LANGUAGE || 'nodejs') as Language: unset and '' are falsy,
\* the cast checks nothing
InfraLanguage(env) ==
    IF ~env.isSet \/ env.value = "" THEN "nodejs" ELSE env.value

\* the props.language values the constructor is given
LanguageArgs == {InfraLanguage(e) : e \in EnvLanguageValues}

\* the members of the Language type
Language == {"nodejs", "dotnet", "python", "java"}

Undefined == [type |-> "undefined", id |-> "undefined"]
NodejsFunction == [type |-> "NodejsFunction", id |-> "thumbnail-generator"]
DotnetFunction == [type |-> "Function", id |-> "thumbnail-generator"]
SharpLayer == [type |-> "LayerVersion", id |-> "sharp-layer"]
NoLanguage == "unset"
NoThrown == [message |-> "none", language |-> NoLanguage]

VARIABLES
    fnPc,                  \* position in the FunctionsConstruct constructor
    language,              \* const { language } = props
    thumbnailGeneratorFn,  \* field thumbnailGeneratorFn
    children,              \* constructs created with this as scope
    suppressed,            \* what addResourceSuppressions was applied to
    thrown                 \* the Error the constructor threw

infraVars == <<fnPc, language, thumbnailGeneratorFn, children, suppressed, thrown>>

InfraInit ==
    /\ fnPc = [i \in Constructs |-> "new"]
    /\ language = [i \in Constructs |-> NoLanguage]
    /\ thumbnailGeneratorFn = [i \in Constructs |-> Undefined]
    /\ children = [i \in Constructs |-> {}]
    /\ suppressed = [i \in Constructs |-> {}]
    /\ thrown = [i \in Constructs |-> NoThrown]

vars == <<ctorVars, callVars, apiVars, infraVars>>

Init ==
    /\ CtorInit
    /\ pc = [c \in Callers |-> "idle"]
    /\ args = [c \in Callers |-> NoArgs]
    /\ immutableCredentials = [c \in Callers |-> NoCredentials]
    /\ jsonPayload = [c \in Callers |-> Null]
    /\ httpRequestMessage = [c \in Callers |-> NoMessage]
    /\ awsRequest = [c \in Callers |-> NoAwsRequest]
    /\ httpResponseMessage = [c \in Callers |-> NoResponse]
    /\ error = [c \in Callers |-> NoError]
    /\ net = {}
    /\ sent = [c \in Callers |-> 0]
    /\ draft = [c \in Callers |-> NoMessage]
    /\ signedOver = [c \in Callers |-> NoSigned]
    /\ resolutions = [c \in Callers |-> 0]
    /\ served = FALSE
    /\ ApiInit
    /\ InfraInit

\* the constructor runs: no call is in progress
ConstructStep ==
    /\ \E e \in EndpointArgs, r \in RegionArgs : Construct(e, r)
    /\ UNCHANGED <<callVars, apiVars, infraVars>>

\* a caller invokes RunGraphql(query, operationName, variables) on the
\* constructed object
Start(c) ==
    /\ constructed = "ok"
    /\ pc[c] = "idle"
    /\ \E a \in Payloads : args' = [args EXCEPT ![c] = a]
    /\ pc' = [pc EXCEPT ![c] = "getCredentials"]
    /\ sent' = [sent EXCEPT ![c] = 0]
    /\ error' = [error EXCEPT ![c] = NoError]
    /\ UNCHANGED <<immutableCredentials, jsonPayload, httpRequestMessage, awsRequest,
                   httpResponseMessage, net, draft, signedOver>>
    /\ resolutions' = [resolutions EXCEPT ![c] = 0]
    /\ UNCHANGED served
    /\ UNCHANGED <<ctorVars, apiVars, infraVars>>

\* the chain is asked on the first call only; later calls reuse what it gave
GetCredentialsCached(c) ==
    /\ pc[c] = "getCredentials"
    /\ \E cr \in ResolvableCredentials :
          immutableCredentials' = [immutableCredentials EXCEPT ![c] = cr]
    /\ pc' = [pc EXCEPT ![c] = "build"]
    /\ UNCHANGED <<args, jsonPayload, httpRequestMessage, awsRequest,
                   httpResponseMessage, error, net, sent, draft, signedOver>>
    /\ resolutions' = [resolutions EXCEPT ![c] = IF served THEN @ ELSE @ + 1]
    /\ UNCHANGED served
    /\ UNCHANGED <<ctorVars, apiVars, infraVars>>

\* lines 37-41: the credential chain yields credentials
GetCredentials(c) ==
    /\ pc[c] = "getCredentials"
    /\ \E cr \in ResolvableCredentials :
          immutableCredentials' = [immutableCredentials EXCEPT ![c] = cr]
    /\ pc' = [pc EXCEPT ![c] = "build"]
    /\ UNCHANGED <<args, jsonPayload, httpRequestMessage, awsRequest,
                   httpResponseMessage, error, net, sent, draft, signedOver>>
    /\ resolutions' = [resolutions EXCEPT ![c] = @ + 1]
    /\ UNCHANGED served
    /\ UNCHANGED <<ctorVars, apiVars, infraVars>>

\* the failure is recorded and the call goes on without credentials
GetCredentialsFailsGoesOn(c) ==
    /\ pc[c] = "getCredentials"
    /\ error' = [error EXCEPT ![c] =
                   [type |-> "AmazonServiceException", step |-> "GetCredentials",
                    StatusCode |-> 0, Message |-> <<>>]]
    /\ pc' = [pc EXCEPT ![c] = "build"]
    /\ UNCHANGED <<args, immutableCredentials, jsonPayload, httpRequestMessage,
                   awsRequest, httpResponseMessage, net, sent, draft, signedOver>>
    /\ resolutions' = [resolutions EXCEPT ![c] = @ + 1]
    /\ UNCHANGED served
    /\ UNCHANGED <<ctorVars, apiVars, infraVars>>

\* lines 37-41: the credential chain finds nothing and throws
GetCredentialsFails(c) ==
    /\ pc[c] = "getCredentials"
    /\ error' = [error EXCEPT ![c] =
                   [type |-> "AmazonServiceException", step |-> "GetCredentials",
                    StatusCode |-> 0, Message |-> <<>>]]
    /\ pc' = [pc EXCEPT ![c] = "failed"]
    /\ UNCHANGED <<args, immutableCredentials, jsonPayload, httpRequestMessage,
                   awsRequest, httpResponseMessage, net, sent, draft, signedOver>>
    /\ resolutions' = [resolutions EXCEPT ![c] = @ + 1]
    /\ UNCHANGED served
    /\ UNCHANGED <<ctorVars, apiVars, infraVars>>

\* the message of lines 43-51: serialized payload, content, POST to the
\* endpoint, token and host headers
DraftMessage(a, creds, endpoint) ==
    LET content == StringContent(SerializeObject(a))
        h1 == HeadersAdd({}, XAmzSecurityTokenHeader, creds.Token)
        h2 == HeadersAdd(h1, HostHeader, endpoint.Host)
    IN [Method |-> MethodPost, RequestUri |-> endpoint, Headers |-> h2,
        Content |-> content]

\* lines 43-51
BuildRequest(c) ==
    /\ pc[c] = "build"
    /\ jsonPayload' = [jsonPayload EXCEPT ![c] = SerializeObject(args[c])]
    /\ httpRequestMessage' = [httpRequestMessage EXCEPT ![c] =
          DraftMessage(args[c], immutableCredentials[c], _graphQlEndpoint)]
    /\ draft' = [draft EXCEPT ![c] = httpRequestMessage'[c]]
    /\ pc' = [pc EXCEPT ![c] = "awsRequest"]
    /\ UNCHANGED <<args, immutableCredentials, awsRequest, httpResponseMessage, error,
                   net, sent, signedOver>>
    /\ UNCHANGED <<resolutions, served>>
    /\ UNCHANGED <<ctorVars, apiVars, infraVars>>

\* the bytes of the payload string in UTF-8, not the bytes of the content
RawBytesUtf8(c) == Utf8GetBytes(jsonPayload[c])

\* the bytes of whichever content was built first, as a buffer shared by the
\* callers would give
RawBytesShared(c) ==
    LET built == {d \in Callers : httpRequestMessage[d] # NoMessage}
        first == CHOOSE d \in built : \A o \in built : d <= o
    IN AsciiGetBytes(ReadAsString(httpRequestMessage[first].Content))

\* line 54: the bytes given to the signer
RawBytes(c) == AsciiGetBytes(ReadAsString(httpRequestMessage[c].Content))

\* a copy of the content headers only
SignerInputHeadersContentOnly(m) == CopyHeaders({}, m.Content.Headers)

\* lines 64-67: the headers given to the signer
SignerInputHeaders(m) == CopyHeaders(CopyHeaders({}, m.Headers), m.Content.Headers)

\* lines 54-67
BuildAwsRequest(c) ==
    /\ pc[c] = "awsRequest"
    /\ awsRequest' = [awsRequest EXCEPT ![c] =
          [ServiceName |-> AppSyncService,
           Content |-> RawBytes(c),
           HttpMethod |-> MethodPost,
           Endpoint |-> _graphQlEndpoint,
           AlternateEndpoint |-> _awsRegion,
           Headers |-> SignerInputHeaders(httpRequestMessage[c])]]
    /\ pc' = [pc EXCEPT ![c] = "sign"]
    /\ UNCHANGED <<args, immutableCredentials, jsonPayload, httpRequestMessage,
                   httpResponseMessage, error, net, sent, draft, signedOver>>
    /\ UNCHANGED <<resolutions, served>>
    /\ UNCHANGED <<ctorVars, apiVars, infraVars>>

\* lines 69-70
Sign(c) ==
    /\ pc[c] = "sign"
    /\ signedOver' = [signedOver EXCEPT ![c] =
          SignedRequest(awsRequest[c], immutableCredentials[c])]
    /\ \E out \in SignerOutputs(awsRequest[c], immutableCredentials[c]) :
          awsRequest' = [awsRequest EXCEPT ![c].Headers = out]
    /\ pc' = [pc EXCEPT ![c] = "merge"]
    /\ UNCHANGED <<args, immutableCredentials, jsonPayload, httpRequestMessage,
                   httpResponseMessage, error, net, sent, draft>>
    /\ UNCHANGED <<resolutions, served>>
    /\ UNCHANGED <<ctorVars, apiVars, infraVars>>

\* lines 72-86
MergeHeaders(c) ==
    /\ pc[c] = "merge"
    /\ httpRequestMessage' = [httpRequestMessage EXCEPT ![c].Headers =
          MergeSignerHeaders(@, awsRequest[c].Headers)]
    /\ pc' = [pc EXCEPT ![c] = "send"]
    /\ UNCHANGED <<args, immutableCredentials, jsonPayload, awsRequest,
                   httpResponseMessage, error, net, sent, draft, signedOver>>
    /\ UNCHANGED <<resolutions, served>>
    /\ UNCHANGED <<ctorVars, apiVars, infraVars>>

\* line 88: SendAsync hands the request to the network. The signer's request
\* is not read after the loop of lines 75-86 and is forgotten here.
Send(c) ==
    /\ pc[c] = "send"
    /\ net' = net \cup {[from |-> c, request |-> WireRequest(httpRequestMessage[c])]}
    /\ sent' = [sent EXCEPT ![c] = @ + 1]
    /\ awsRequest' = [awsRequest EXCEPT ![c] = NoAwsRequest]
    /\ pc' = [pc EXCEPT ![c] = "await"]
    /\ UNCHANGED <<args, immutableCredentials, jsonPayload, httpRequestMessage,
                   httpResponseMessage, error, draft, signedOver>>
    /\ UNCHANGED <<resolutions, served>>
    /\ UNCHANGED <<ctorVars, apiVars, infraVars>>

\* lines 88-89: a response arrives and EnsureSuccessStatusCode judges it
Receive(c) ==
    /\ pc[c] = "await"
    /\ \E response \in Responses :
            /\ httpResponseMessage' = [httpResponseMessage EXCEPT ![c] = response]
            /\ IF IsSuccessStatusCode(response.StatusCode)
               THEN /\ pc' = [pc EXCEPT ![c] = "done"]
                    /\ UNCHANGED error
               ELSE /\ pc' = [pc EXCEPT ![c] = "failed"]
                    /\ error' = [error EXCEPT ![c] = StatusException(response)]
    /\ net' = {n \in net : n.from # c}
    /\ UNCHANGED <<args, immutableCredentials, jsonPayload, httpRequestMessage,
                   awsRequest, sent, draft, signedOver>>
    /\ UNCHANGED <<resolutions, served>>
    /\ UNCHANGED <<ctorVars, apiVars, infraVars>>

\* the connection fails and the request is sent again
TransportFailureRetries(c) ==
    /\ pc[c] = "await"
    /\ pc' = [pc EXCEPT ![c] = "send"]
    /\ net' = {n \in net : n.from # c}
    /\ UNCHANGED <<args, immutableCredentials, jsonPayload, httpRequestMessage, error,
                   awsRequest, httpResponseMessage, sent, draft, signedOver>>
    /\ UNCHANGED <<resolutions, served>>
    /\ UNCHANGED <<ctorVars, apiVars, infraVars>>

\* line 88: the connection fails and SendAsync throws
TransportFailure(c) ==
    /\ pc[c] = "await"
    /\ error' = [error EXCEPT ![c] =
                   [type |-> "HttpRequestException", step |-> "SendAsync",
                    StatusCode |-> 0, Message |-> <<>>]]
    /\ pc' = [pc EXCEPT ![c] = "failed"]
    /\ net' = {n \in net : n.from # c}
    /\ UNCHANGED <<args, immutableCredentials, jsonPayload, httpRequestMessage,
                   awsRequest, httpResponseMessage, sent, draft, signedOver>>
    /\ UNCHANGED <<resolutions, served>>
    /\ UNCHANGED <<ctorVars, apiVars, infraVars>>

\* the task completes or faults; the locals of the call are gone
Return(c) ==
    /\ pc[c] \in {"done", "failed"}
    /\ pc' = [pc EXCEPT ![c] = "idle"]
    /\ args' = [args EXCEPT ![c] = NoArgs]
    /\ immutableCredentials' = [immutableCredentials EXCEPT ![c] = NoCredentials]
    /\ jsonPayload' = [jsonPayload EXCEPT ![c] = Null]
    /\ httpRequestMessage' = [httpRequestMessage EXCEPT ![c] = NoMessage]
    /\ awsRequest' = [awsRequest EXCEPT ![c] = NoAwsRequest]
    /\ httpResponseMessage' = [httpResponseMessage EXCEPT ![c] = NoResponse]
    /\ error' = [error EXCEPT ![c] = NoError]
    /\ sent' = [sent EXCEPT ![c] = 0]
    /\ draft' = [draft EXCEPT ![c] = NoMessage]
    /\ signedOver' = [signedOver EXCEPT ![c] = NoSigned]
    /\ UNCHANGED net
    /\ resolutions' = [resolutions EXCEPT ![c] = 0]
    /\ served' = TRUE
    /\ UNCHANGED <<ctorVars, apiVars, infraVars>>

Next ==
    \/ ConstructStep
    \/ \E c \in Callers : Start(c)
    \/ \E c \in Callers : GetCredentials(c)
    \/ \E c \in Callers : GetCredentialsFails(c)
    \/ \E c \in Callers : BuildRequest(c)
    \/ \E c \in Callers : BuildAwsRequest(c)
    \/ \E c \in Callers : Sign(c)
    \/ \E c \in Callers : MergeHeaders(c)
    \/ \E c \in Callers : Send(c)
    \/ \E c \in Callers : Receive(c)
    \/ \E c \in Callers : TransportFailure(c)
    \/ \E c \in Callers : Return(c)

Spec == Init /\ [][Next]_vars

\* ------------------------------------------- PosAsJsonAsync, step by step
\* a caller invokes PosAsJsonAsync(apiUrl, apiKey, content)
ApiStart ==
    /\ apiPc = "idle"
    /\ \E u \in ApiUrls, k \in ApiKeys, o \in ApiContents :
          apiArgs' = [apiUrl |-> u, apiKey |-> k, content |-> o]
    /\ apiPc' = "validate"
    /\ apiNet' = <<>>
    /\ UNCHANGED <<apiRequestMessage, apiResponseMessage, apiError>>
    /\ UNCHANGED <<ctorVars, callVars, infraVars>>

\* lines 20-27: one of the three checks throws
ApiValidateThrows ==
    /\ apiPc = "validate"
    /\ FirstInvalidArgument(apiArgs.apiUrl, apiArgs.apiKey, apiArgs.content) # "none"
    /\ apiError' = ArgumentNullException(
                      FirstInvalidArgument(apiArgs.apiUrl, apiArgs.apiKey,
                                           apiArgs.content))
    /\ apiPc' = "failed"
    /\ UNCHANGED <<apiArgs, apiRequestMessage, apiResponseMessage, apiNet>>
    /\ UNCHANGED <<ctorVars, callVars, infraVars>>

\* lines 20-39: the three checks pass and the message is built
ApiBuildRequest ==
    /\ apiPc = "validate"
    /\ FirstInvalidArgument(apiArgs.apiUrl, apiArgs.apiKey, apiArgs.content) = "none"
    /\ apiRequestMessage' =
          ApiRequestMessage(apiArgs.apiUrl, apiArgs.apiKey, apiArgs.content)
    /\ apiPc' = "send"
    /\ UNCHANGED <<apiArgs, apiResponseMessage, apiError, apiNet>>
    /\ UNCHANGED <<ctorVars, callVars, infraVars>>

\* line 41: SendAsync hands the request to the connection
ApiSendAsync ==
    /\ apiPc = "send"
    /\ apiRequestMessage.RequestUri.IsAbsoluteUri
    /\ apiNet' = Append(apiNet, WireRequest(apiRequestMessage))
    /\ apiPc' = "await"
    /\ UNCHANGED <<apiArgs, apiRequestMessage, apiResponseMessage, apiError>>
    /\ UNCHANGED <<ctorVars, callVars, infraVars>>

\* line 41: a client without BaseAddress refuses a relative request URI with
\* an InvalidOperationException, before anything is sent
ApiSendAsyncRefuses ==
    /\ apiPc = "send"
    /\ ~apiRequestMessage.RequestUri.IsAbsoluteUri
    /\ apiError' = [type |-> "InvalidOperationException", ParamName |-> "none",
                    StatusCode |-> 0]
    /\ apiPc' = "failed"
    /\ UNCHANGED <<apiArgs, apiRequestMessage, apiResponseMessage, apiNet>>
    /\ UNCHANGED <<ctorVars, callVars, infraVars>>

\* lines 41-42: the response arrives; EnsureSuccessStatusCode
ApiReceive ==
    /\ apiPc = "await"
    /\ \E r \in Responses :
          /\ apiResponseMessage' = r
          /\ IF IsSuccessStatusCode(r.StatusCode)
             THEN /\ apiPc' = "done"
                  /\ UNCHANGED apiError
             ELSE /\ apiPc' = "failed"
                  /\ apiError' = [type |-> "HttpRequestException",
                                  ParamName |-> "none",
                                  StatusCode |-> StatusException(r).StatusCode]
    /\ UNCHANGED <<apiArgs, apiRequestMessage, apiNet>>
    /\ UNCHANGED <<ctorVars, callVars, infraVars>>

\* line 41: the connection fails, SendAsync throws, nothing is sent again
ApiTransportFailure ==
    /\ apiPc = "await"
    /\ apiError' = [type |-> "HttpRequestException", ParamName |-> "none",
                    StatusCode |-> 0]
    /\ apiPc' = "failed"
    /\ UNCHANGED <<apiArgs, apiRequestMessage, apiResponseMessage, apiNet>>
    /\ UNCHANGED <<ctorVars, callVars, infraVars>>

\* the task completes or faults; the locals are gone
ApiReturn ==
    /\ apiPc \in {"done", "failed"}
    /\ apiPc' = "idle"
    /\ apiArgs' = NoApiArgs
    /\ apiRequestMessage' = NoApiMessage
    /\ apiResponseMessage' = NoResponse
    /\ apiError' = NoApiError
    /\ apiNet' = <<>>
    /\ UNCHANGED <<ctorVars, callVars, infraVars>>

ApiNext ==
    \/ ApiStart
    \/ ApiValidateThrows
    \/ ApiBuildRequest
    \/ ApiSendAsync
    \/ ApiSendAsyncRefuses
    \/ ApiReceive
    \/ ApiTransportFailure
    \/ ApiReturn

ApiSpec == Init /\ [][ApiNext]_vars

\* ------------------------------- the FunctionsConstruct constructor, by step
\* lines 79-96: new FunctionsConstruct(scope, id, props); super, the
\* destructuring of props and the local constants
NewFunctionsConstruct(i) ==
    /\ fnPc[i] = "new"
    /\ \E l \in LanguageArgs : language' = [language EXCEPT ![i] = l]
    /\ fnPc' = [fnPc EXCEPT ![i] = "branch"]
    /\ UNCHANGED <<thumbnailGeneratorFn, children, suppressed, thrown>>
    /\ UNCHANGED <<ctorVars, callVars, apiVars>>

\* lines 98-105: language === 'nodejs', the sharp layer
CreateSharpLayer(i) ==
    /\ fnPc[i] = "branch"
    /\ language[i] = "nodejs"
    /\ children' = [children EXCEPT ![i] = @ \cup {SharpLayer}]
    /\ fnPc' = [fnPc EXCEPT ![i] = "layer"]
    /\ UNCHANGED <<language, thumbnailGeneratorFn, suppressed, thrown>>
    /\ UNCHANGED <<ctorVars, callVars, apiVars>>

\* lines 107-122: this.thumbnailGeneratorFn = new NodejsFunction(...)
CreateNodejsFunction(i) ==
    /\ fnPc[i] = "layer"
    /\ thumbnailGeneratorFn' = [thumbnailGeneratorFn EXCEPT ![i] = NodejsFunction]
    /\ children' = [children EXCEPT ![i] = @ \cup {NodejsFunction}]
    /\ fnPc' = [fnPc EXCEPT ![i] = "suppress"]
    /\ UNCHANGED <<language, suppressed, thrown>>
    /\ UNCHANGED <<ctorVars, callVars, apiVars>>

\* the python branch does nothing and the constructor goes on
PythonFallsThrough(i) ==
    /\ fnPc[i] = "branch"
    /\ language[i] = "python"
    /\ fnPc' = [fnPc EXCEPT ![i] = "suppress"]
    /\ UNCHANGED <<language, thumbnailGeneratorFn, children, suppressed, thrown>>
    /\ UNCHANGED <<ctorVars, callVars, apiVars>>

\* lines 123-124: language === 'python'
PythonNotImplemented(i) ==
    /\ fnPc[i] = "branch"
    /\ language[i] = "python"
    /\ thrown' = [thrown EXCEPT ![i] =
                    [message |-> "Python not implemented yet", language |-> NoLanguage]]
    /\ fnPc' = [fnPc EXCEPT ![i] = "thrown"]
    /\ UNCHANGED <<language, thumbnailGeneratorFn, children, suppressed>>
    /\ UNCHANGED <<ctorVars, callVars, apiVars>>

\* lines 125-140: language === 'dotnet', this.thumbnailGeneratorFn = new Function(...)
CreateDotnetFunction(i) ==
    /\ fnPc[i] = "branch"
    /\ language[i] = "dotnet"
    /\ thumbnailGeneratorFn' = [thumbnailGeneratorFn EXCEPT ![i] = DotnetFunction]
    /\ children' = [children EXCEPT ![i] = @ \cup {DotnetFunction}]
    /\ fnPc' = [fnPc EXCEPT ![i] = "suppress"]
    /\ UNCHANGED <<language, suppressed, thrown>>
    /\ UNCHANGED <<ctorVars, callVars, apiVars>>

\* lines 141-142: language === 'java'
JavaNotImplemented(i) ==
    /\ fnPc[i] = "branch"
    /\ language[i] = "java"
    /\ thrown' = [thrown EXCEPT ![i] =
                    [message |-> "Java not implemented yet", language |-> NoLanguage]]
    /\ fnPc' = [fnPc EXCEPT ![i] = "thrown"]
    /\ UNCHANGED <<language, thumbnailGeneratorFn, children, suppressed>>
    /\ UNCHANGED <<ctorVars, callVars, apiVars>>

\* lines 143-145: the final else, `Language ${language} not supported`
LanguageNotSupported(i) ==
    /\ fnPc[i] = "branch"
    /\ language[i] \notin {"nodejs", "python", "dotnet", "java"}
    /\ thrown' = [thrown EXCEPT ![i] =
                    [message |-> "Language not supported", language |-> language[i]]]
    /\ fnPc' = [fnPc EXCEPT ![i] = "thrown"]
    /\ UNCHANGED <<language, thumbnailGeneratorFn, children, suppressed>>
    /\ UNCHANGED <<ctorVars, callVars, apiVars>>

\* lines 147-162: NagSuppressions.addResourceSuppressions(
\* this.thumbnailGeneratorFn, [...], true); the constructor returns
AddResourceSuppressions(i) ==
    /\ fnPc[i] = "suppress"
    /\ suppressed' = [suppressed EXCEPT ![i] = @ \cup {thumbnailGeneratorFn[i]}]
    /\ fnPc' = [fnPc EXCEPT ![i] = "constructed"]
    /\ UNCHANGED <<language, thumbnailGeneratorFn, children, thrown>>
    /\ UNCHANGED <<ctorVars, callVars, apiVars>>

InfraNext ==
    \/ \E i \in Constructs : NewFunctionsConstruct(i)
    \/ \E i \in Constructs : CreateSharpLayer(i)
    \/ \E i \in Constructs : CreateNodejsFunction(i)
    \/ \E i \in Constructs : PythonNotImplemented(i)
    \/ \E i \in Constructs : CreateDotnetFunction(i)
    \/ \E i \in Constructs : JavaNotImplemented(i)
    \/ \E i \in Constructs : LanguageNotSupported(i)
    \/ \E i \in Constructs : AddResourceSuppressions(i)

InfraSpec == Init /\ [][InfraNext]_vars

\* ------------------------------------------------------------- properties
ProtectedNames ==
    {ContentTypeHeader, ContentLengthHeader, XAmzSecurityTokenHeader, HostHeader}

IsProtectedName(name) == \E p \in ProtectedNames : ToLower(name) = ToLower(p)

\* the protected headers of a header collection, names folded to lower case
ProtectedEntries(headers) ==
    {[name |-> ToLower(h.Key), values |-> h.Values] :
        h \in {x \in headers : IsProtectedName(x.Key)}}

\* the outgoing requests of a call: the finished message about to be sent,
\* and the request on the network
FinalRequests(c) ==
    {n.request : n \in {m \in net : m.from = c}}
    \cup (IF pc[c] = "send" THEN {WireRequest(httpRequestMessage[c])} ELSE {})

\* text contains sub as a contiguous part
Contains(text, sub) ==
    \E i \in 1..(Len(text) - Len(sub) + 1) : SubSeq(text, i, i + Len(sub) - 1) = sub

\* C1: in every outgoing request the four protected headers (content-type,
\* content-length, security token, host) have exactly the values the draft
\* request established before signing, whatever values and whatever letter
\* case the signer returned for them.
C1_ProtectedHeadersKeepDraftValues ==
    \A c \in Callers : \A r \in FinalRequests(c) :
        ProtectedEntries(r.Headers) = ProtectedEntries(WireHeaders(draft[c]))

\* the signer returned other values for all four protected headers, and the
\* merged request is ready to be sent
C1_Witness ==
    \E c \in Callers :
        /\ pc[c] = "send"
        /\ {RewriteHostPort, RewriteToken, RewriteContentType, RewriteContentLength}
              \subseteq awsRequest[c].Headers
        /\ DictGet(awsRequest[c].Headers, HostHeader)
              # Join(HeaderValues(draft[c].Headers, HostHeader))

\* C2: when the request is sent, every header of the signer's output whose
\* name is not one of the four protected names is in the request on the
\* network, with the signer's value and nothing else.
C2_SignerHeadersAreSent ==
    [][\A c \in Callers :
          (pc[c] = "send" /\ pc'[c] = "await") =>
             \A e \in awsRequest[c].Headers :
                ~IsProtectedName(e.Key) =>
                   \E n \in net' :
                      /\ n.from = c
                      /\ HeaderValues(n.request.Headers, e.Key) = <<e.Value>>]_vars

\* a request on the network carries the three headers the signer adds
C2_Witness ==
    \E n \in net :
        /\ Len(HeaderValues(n.request.Headers, AuthorizationHeader)) = 1
        /\ HeaderValues(n.request.Headers, XAmzDateHeader) = <<SigningTime>>
        /\ Len(HeaderValues(n.request.Headers, XAmzContentSha256Header)) = 1

\* C3: the body on the network is, byte for byte, the content the signature
\* was computed over, and both are the ASCII bytes of the one serialized
\* payload of the call.
C3_SignedBodyIsSentBody ==
    \A c \in Callers : \A r \in FinalRequests(c) :
        /\ r.Body = signedOver[c].Content
        /\ r.Body = AsciiGetBytes(jsonPayload[c])
        /\ r.Body = draft[c].Content.Buffer

\* a request whose payload has a character outside ASCII is on the network
C3_Witness ==
    \E n \in net :
        /\ \E i \in 1..Len(jsonPayload[n.from]) : jsonPayload[n.from][i] > 127
        /\ signedOver[n.from] # NoSigned

C5_NoCredentialsNoRequest ==
    \A c \in Callers :
        error[c].step = "GetCredentials" =>
           /\ pc[c] = "failed"
           /\ error[c].type = "AmazonServiceException"
           /\ sent[c] = 0
           /\ \A n \in net : n.from # c
           /\ jsonPayload[c] = Null
           /\ httpRequestMessage[c] = NoMessage
           /\ awsRequest[c] = NoAwsRequest
           /\ signedOver[c] = NoSigned

\* credential resolution has failed for a caller while another caller's
\* request is on the network
C5_Witness ==
    \E c \in Callers :
        /\ error[c].step = "GetCredentials"
        /\ \E n \in net : n.from # c

\* C6: a call never sends more than one request; a call that resolved
\* credentials and has ended, well or not, has sent exactly one; the request
\* is a POST to the configured endpoint with one non-empty Authorization
\* value and the session token of the call's credentials; once the call has
\* failed nothing of it is on the network.
C6_ExactlyOneRequest ==
    \A c \in Callers :
        /\ sent[c] <= 1
        /\ (pc[c] \in {"done", "failed"} /\ immutableCredentials[c] # NoCredentials)
              => sent[c] = 1
        /\ pc[c] \in {"done", "failed"} => \A n \in net : n.from # c
        /\ \A n \in net :
              n.from = c =>
                 /\ sent[c] = 1
                 /\ n.request.Method = MethodPost
                 /\ n.request.Uri = _graphQlEndpoint.OriginalString
                 /\ Len(HeaderValues(n.request.Headers, AuthorizationHeader)) = 1
                 /\ Len(HeaderValues(n.request.Headers, AuthorizationHeader)[1]) > 0
                 /\ HeaderValues(n.request.Headers, XAmzSecurityTokenHeader)
                       = <<immutableCredentials[c].Token>>

\* a call has ended in a transport failure after its one request
C6_Witness ==
    \E c \in Callers :
        /\ pc[c] = "failed"
        /\ error[c].step = "SendAsync"
        /\ sent[c] = 1

\* C7 as stated: the body on the network, read by a JSON parser, is the
\* object {query, operationName, variables} the caller passed.
C7_BodyRoundTrips ==
    \A n \in net :
        LET parsed == ParseBody(n.request.Body)
        IN /\ parsed.ok
           /\ parsed.query = args[n.from].query
           /\ parsed.operationName = args[n.from].operationName
           /\ parsed.variables = args[n.from].variables

\* the signer's request a call builds from its own arguments and credentials
OwnAwsRequest(c) ==
    LET m == DraftMessage(args[c], immutableCredentials[c], _graphQlEndpoint)
    IN [ServiceName |-> AppSyncService,
        Content |-> m.Content.Buffer,
        HttpMethod |-> MethodPost,
        Endpoint |-> _graphQlEndpoint,
        AlternateEndpoint |-> _awsRegion,
        Headers |-> CopyHeaders(CopyHeaders({}, m.Headers), m.Content.Headers)]

\* C8: whatever the interleaving of the callers' steps, the request of a call
\* has the body serialized from that call's arguments, the token of that
\* call's credentials, and the payload hash and the signature computed from
\* that call's body and credentials.
C8_NoCrossContamination ==
    \A c \in Callers : \A r \in FinalRequests(c) :
        /\ r.Body = AsciiGetBytes(SerializeObject(args[c]))
        /\ HeaderValues(r.Headers, XAmzSecurityTokenHeader)
              = <<immutableCredentials[c].Token>>
        /\ HeaderValues(r.Headers, XAmzContentSha256Header)
              = <<Digits(Checksum(r.Body))>>
        /\ HeaderValues(r.Headers, AuthorizationHeader)
              = <<AuthorizationValue(OwnAwsRequest(c), immutableCredentials[c])>>

\* two requests of calls with different payloads and credentials are on the
\* network together
C8_Witness ==
    \E n1 \in net, n2 \in net :
        /\ n1.from # n2.from
        /\ args[n1.from] # args[n2.from]
        /\ immutableCredentials[n1.from] # immutableCredentials[n2.from]

\* the endpoint strings that are absolute URIs
WellFormedEndpoints == {EndpointPort}

\* C9: the constructor succeeds exactly when the endpoint is an absolute URI
\* and a region name is found, the explicit argument when it is not blank and
\* AWS_REGION otherwise; it then holds the parsed endpoint and that region,
\* and it fails with an exception in every other case. No call runs while no
\* dispatcher is constructed.
C9_ConstructorFailsFast ==
    /\ [][\A e \in EndpointArgs, r \in RegionArgs :
             Construct(e, r) =>
                LET name == IF r \in {Null, RegionBlank} THEN envRegion ELSE r
                IN IF e \in WellFormedEndpoints /\ name # Null
                   THEN /\ constructed' = "ok"
                        /\ _graphQlEndpoint'.ok
                        /\ _graphQlEndpoint'.OriginalString = e
                        /\ _awsRegion'.ok
                        /\ _awsRegion'.SystemName = name
                   ELSE /\ constructed' = "failed"
                        /\ ctorError' # "none"]_vars
    /\ [](constructed # "ok" => \A c \in Callers : pc[c] = "idle")
    /\ [](constructed = "ok" => _graphQlEndpoint.ok /\ _awsRegion.ok)

\* the constructor took the region from AWS_REGION and a call is running
C9_Witness ==
    /\ constructed = "ok"
    /\ _awsRegion.SystemName = RegionEuWest1
    /\ \E c \in Callers : pc[c] = "await"

\* C10: the signature covers every header of the draft request with the
\* draft's value, the host and the token among them, under the service
\* appsync and the configured region; the host and the token on the network
\* are the signed ones.
C10_SignedWhatIsSent ==
    \A c \in Callers :
        signedOver[c] # NoSigned =>
           /\ signedOver[c].Service = AppSyncService
           /\ signedOver[c].Region = _awsRegion.SystemName
           /\ signedOver[c].SecretKey = immutableCredentials[c].SecretKey
           /\ \A h \in draft[c].Headers \cup draft[c].Content.Headers :
                 DictGet(signedOver[c].Headers, h.Key) = Join(h.Values)
           /\ DictGet(signedOver[c].Headers, HostHeader) = _graphQlEndpoint.Host
           /\ DictGet(signedOver[c].Headers, XAmzSecurityTokenHeader)
                 = immutableCredentials[c].Token
           /\ \A r \in FinalRequests(c) :
                 /\ HeaderValues(r.Headers, HostHeader)
                       = <<DictGet(signedOver[c].Headers, HostHeader)>>
                 /\ HeaderValues(r.Headers, XAmzSecurityTokenHeader)
                       = <<DictGet(signedOver[c].Headers, XAmzSecurityTokenHeader)>>

\* a signed request is on the network, its endpoint naming a port
C10_Witness ==
    \E n \in net :
        /\ signedOver[n.from] # NoSigned
        /\ Len(_graphQlEndpoint.Port) > 0

\* what a caller holds between two calls: no argument, credentials, payload,
\* message, signer request, response or error, and no request in flight
NothingRetained(c) ==
    /\ args[c] = NoArgs
    /\ immutableCredentials[c] = NoCredentials
    /\ jsonPayload[c] = Null
    /\ httpRequestMessage[c] = NoMessage
    /\ awsRequest[c] = NoAwsRequest
    /\ httpResponseMessage[c] = NoResponse
    /\ error[c] = NoError
    /\ draft[c] = NoMessage
    /\ signedOver[c] = NoSigned
    /\ \A n \in net : n.from # c

\* C11: across any sequence of RunGraphql calls on one object, every call
\* asks the credential chain once, at its start, holding no credentials
\* before; between calls nothing of a call is kept (credentials, headers,
\* body, response); and no step of a call, successful or failed, changes
\* the object's two fields _graphQlEndpoint and _awsRegion.
C11_CallsKeepNothing ==
    /\ [][constructed = "ok" => UNCHANGED <<_graphQlEndpoint, _awsRegion>>]_vars
    /\ [](\A c \in Callers :
            /\ pc[c] = "idle" => NothingRetained(c)
            /\ pc[c] \in {"idle", "getCredentials"} =>
                   /\ resolutions[c] = 0
                   /\ immutableCredentials[c] = NoCredentials
            /\ pc[c] \notin {"idle", "getCredentials"} => resolutions[c] = 1)

\* an earlier call has returned, and of the two calls now finished one
\* succeeded and one failed, each having asked the chain itself
C11_Witness ==
    /\ served
    /\ pc[1] = "done"
    /\ pc[2] = "failed"
    /\ resolutions[1] = 1
    /\ resolutions[2] = 1
    /\ _graphQlEndpoint # NoUri

\* apiUrl is an absolute URI, one the client can send to
IsAbsoluteApiUrl(apiUrl) == UriParse(apiUrl).ok

ApiCallEnded == apiPc \in {"done", "failed"}

ApiArgumentError(paramName) ==
    /\ apiPc = "failed"
    /\ apiError.type = "ArgumentNullException"
    /\ apiError.ParamName = paramName
    /\ Len(apiNet) = 0

FunctionsOf(i) == {ch \in children[i] : ch.type \in {"NodejsFunction", "Function"}}

\* C13: a FunctionsConstruct whose constructor has returned was given
\* 'nodejs' or 'dotnet', has created exactly one function and holds it in
\* thumbnailGeneratorFn; for every other language value the constructor
\* throws with no function created and no suppression applied; and the
\* suppression step only ever runs on a defined thumbnailGeneratorFn.
C13_FunctionDefinedOrThrown ==
    \A i \in Constructs :
        /\ fnPc[i] = "constructed" =>
              /\ language[i] \in {"nodejs", "dotnet"}
              /\ thumbnailGeneratorFn[i] # Undefined
              /\ FunctionsOf(i) = {thumbnailGeneratorFn[i]}
              /\ suppressed[i] = {thumbnailGeneratorFn[i]}
        /\ fnPc[i] = "suppress" => thumbnailGeneratorFn[i] # Undefined
        /\ Undefined \notin suppressed[i]
        /\ language[i] \notin {"nodejs", "dotnet"} /\ fnPc[i] \notin {"new", "branch"} =>
              /\ fnPc[i] = "thrown"
              /\ thrown[i] # NoThrown
              /\ thumbnailGeneratorFn[i] = Undefined
              /\ FunctionsOf(i) = {}
              /\ suppressed[i] = {}
        /\ fnPc[i] = "thrown" => language[i] \notin {"nodejs", "dotnet"}

\* a dotnet instance has been constructed and holds its function, and
\* another, given a string outside the Language type, has thrown
C13_Witness ==
    /\ fnPc[1] = "constructed"
    /\ language[1] = "dotnet"
    /\ thumbnailGeneratorFn[1] = DotnetFunction
    /\ fnPc[2] = "thrown"
    /\ language[2] \notin Language

====
